---- MODULE Spec2Model ----
(***************************************************************************)
(* A model of src/src/gen-api-models.ts: the walk of a bundled OpenAPI v2  *)
(* document (generateApi), the per-operation descriptor builder            *)
(* (renderOperation) and the security resolver (getAuthHeaders).           *)
(*                                                                         *)
(* Representation of the JavaScript values:                                *)
(*  - a JS object whose key order matters is a sequence of [k, v] records  *)
(*    in insertion order (ObjSet / ObjGet / ObjMerge below);               *)
(*  - an optional value is a record [def |-> BOOLEAN, v |-> ...];          *)
(*    an optional string is the string itself, Absent when undefined;      *)
(*  - a "$ref" pointer is the sequence of its "/"-separated segments,      *)
(*    <<>> when the parameter or schema carries no reference;              *)
(*  - a response status is the sequence of its characters;                 *)
(*  - a parameter key `${name}${required ? "" : "?"}` is the record        *)
(*    [name |-> name, opt |-> ~required]: two such keys are the same       *)
(*    string exactly when both fields agree (names never end in "?");      *)
(*  - generated source text is kept as its structure: a request type is    *)
(*    the record of its parts, a decoder expression a sequence of tokens.  *)
(***************************************************************************)
EXTENDS Integers, Sequences, FiniteSets, TLC

VARIABLES
    pc,               \* position of generateApi
    api,              \* the bundled document (SwaggerParser.bundle's result)
    cfg,              \* the arguments of generateApi
    error,            \* the rejection reason of generateApi's promise
    tsSpecFile,       \* the file at tsSpecFilePath was written
    modelFiles,       \* definition names whose model file was written, in order
    operationsTypes,  \* results of the walk so far, one per (path, key) entry
    requestTypesFile, \* the aggregate requestTypes.ts artifact
    call,             \* arguments of a direct call of getAuthHeaders
    ret               \* its result

vars == <<pc, api, cfg, error, tsSpecFile, modelFiles, operationsTypes,
          requestTypesFile, call, ret>>

-----------------------------------------------------------------------------
(* Bounds of the explored inputs *)

MaxParams == 2
MaxResponses == 2
MaxSecurity == 2
MaxEntries == 2

-----------------------------------------------------------------------------
(* JavaScript values *)

Absent == "<undefined>"

Undef == [def |-> FALSE, v |-> <<>>]

Some(x) == [def |-> TRUE, v |-> x]

SeqsUpTo(S, n) == UNION {[1..k -> S] : k \in 0..n}

Range(s) == {s[i] : i \in DOMAIN s}

ObjHas(obj, k) == \E i \in DOMAIN obj : obj[i].k = k

ObjGet(obj, k) == obj[CHOOSE i \in DOMAIN obj : obj[i].k = k].v

ObjSet(obj, k, v) ==
    IF ObjHas(obj, k)
    THEN [i \in DOMAIN obj |-> IF obj[i].k = k THEN [k |-> k, v |-> v] ELSE obj[i]]
    ELSE Append(obj, [k |-> k, v |-> v])

RECURSIVE ObjMerge(_, _)
ObjMerge(a, b) ==
    IF b = <<>> THEN a
    ELSE ObjMerge(ObjSet(a, Head(b).k, Head(b).v), Tail(b))

ObjKeys(obj) == [i \in DOMAIN obj |-> obj[i].k]

Digits == {"0", "1", "2", "3", "4", "5", "6", "7", "8", "9"}

DigitVal(c) ==
    CASE c = "0" -> 0 [] c = "1" -> 1 [] c = "2" -> 2 [] c = "3" -> 3
      [] c = "4" -> 4 [] c = "5" -> 5 [] c = "6" -> 6 [] c = "7" -> 7
      [] c = "8" -> 8 [] c = "9" -> 9

IsIntegerKey(s) ==
    /\ Len(s) >= 1
    /\ \A i \in DOMAIN s : s[i] \in Digits
    /\ (Len(s) = 1 \/ s[1] # "0")

RECURSIVE ToNum(_)
ToNum(s) ==
    IF s = <<>> THEN 0
    ELSE 10 * ToNum(SubSeq(s, 1, Len(s) - 1)) + DigitVal(s[Len(s)])

RECURSIVE SortByNum(_)
SortByNum(keys) ==
    IF keys = <<>> THEN <<>>
    ELSE LET m == CHOOSE i \in DOMAIN keys :
                    \A j \in DOMAIN keys : ToNum(keys[i]) <= ToNum(keys[j])
         IN  <<keys[m]>> \o SortByNum(SubSeq(keys, 1, m - 1) \o SubSeq(keys, m + 1, Len(keys)))

IsIdx(k) == IsIntegerKey(k)

IsStr(k) == ~IsIntegerKey(k)

\* an Object.keys that keeps the insertion order for every key
ObjectKeysInsertionOrder(keys) == keys

\* Object.keys of an object whose keys were inserted in the order `keys`:
\* integer keys first, in ascending numeric order, then the other keys in
\* insertion order.
ObjectKeys(keys) ==
    SortByNum(SelectSeq(keys, IsIdx)) \o SelectSeq(keys, IsStr)

-----------------------------------------------------------------------------
(* Leaf helpers of gen-api-models.ts *)

SUPPORTED_SPEC_METHODS == <<"get", "post", "put", "delete">>

toLowerCase(s) ==
    CASE s = "GET" -> "get"
      [] OTHER -> s

uncapitalize(s) ==
    CASE s = "Profile" -> "profile"
      [] s = "Limit" -> "limit"
      [] s = "Missing" -> "missing"
      [] s = "Ghost" -> "ghost"
      [] OTHER -> s

NoRef == [def |-> FALSE, e1 |-> "", e2 |-> ""]

typeFromRef(s) ==
    IF Len(s) = 3
    THEN [def |-> TRUE,
          e1  |-> IF s[2] = "definitions" THEN "definition"
                  ELSE IF s[2] = "parameters" THEN "parameter"
                  ELSE "other",
          e2  |-> s[3]]
    ELSE NoRef

specTypeToTs(t) ==
    CASE t = "integer" -> "number"
      [] t = "file" -> "{ uri: string, name: string, type: string }"
      [] OTHER -> t

Tok(t, status, type) == [t |-> t, status |-> status, type |-> type]

getDecoderForResponse(status, type) ==
    CASE type = "undefined" -> <<Tok("constantResponseDecoder", status, "undefined")>>
      [] type = "Error" -> <<Tok("basicErrorResponseDecoder", status, "")>>
      [] OTHER -> <<Tok("ioResponseDecoder", status, type)>>

-----------------------------------------------------------------------------
(* getAuthHeaders: the security resolver *)

Tuple2(a, b) == [e1 |-> a, e2 |-> b]

SchemeOf(securityDefinitions, k) ==
    IF ObjHas(securityDefinitions.v, k)
    THEN Some(ObjGet(securityDefinitions.v, k))
    ELSE Undef

IsDefinedScheme(t) == t.e2.def

\* a resolver that forgets the location filter
IsAnyScheme(t) == t.e2.v.in = t.e2.v.in

IsHeaderScheme(t) == t.e2.v.in = "header"

\* a resolver that keys the auth parameter by the header field name
AuthHeaderKeyedByField(t) == Tuple2(t.e2.v.name, t.e2.v.name)

AuthHeader(t) == Tuple2(t.e1, t.e2.v.name)

getAuthHeaders(securityDefinitions, securityKeys) ==
    IF ~securityKeys.def /\ ~securityDefinitions.def THEN <<>>
    ELSE
      LET securityDefs ==
            IF securityKeys.def /\ securityDefinitions.def
            THEN [i \in DOMAIN securityKeys.v |->
                    Tuple2(securityKeys.v[i], SchemeOf(securityDefinitions, securityKeys.v[i]))]
            ELSE IF securityDefinitions.def
            THEN [i \in DOMAIN securityDefinitions.v |->
                    Tuple2(securityDefinitions.v[i].k,
                           SchemeOf(securityDefinitions, securityDefinitions.v[i].k))]
            ELSE <<>>
          kept == SelectSeq(SelectSeq(securityDefs, IsDefinedScheme), IsHeaderScheme)
      IN  [i \in DOMAIN kept |-> AuthHeader(kept[i])]

\* security.map(_ => Object.keys(_)[0]).filter(_ => _ !== undefined): each
\* requirement object is the sequence of its keys.
HasKey(requirement) == requirement # <<>>

FirstKeys(security) ==
    LET named == SelectSeq(security, HasKey)
    IN  [i \in DOMAIN named |-> named[i][1]]

-----------------------------------------------------------------------------
(* renderOperation: the operation descriptor builder *)

ParamKey(name, required) == [name |-> name, opt |-> ~required]

\* One iteration of operation.parameters.forEach (lines 119-177). `acc` holds
\* the params object and importedTypes; threw records the TypeError raised by
\* reading a property of specParameters[name] when that entry is undefined.
ParamStep(acc, param, specParameters) ==
    IF acc.threw THEN acc
    ELSE IF param.name # "" /\ param.type # ""
    THEN [acc EXCEPT !.params =
            ObjSet(@, ParamKey(param.name, param.required), specTypeToTs(param.type))]
    ELSE IF param.ref = <<>> THEN acc
    ELSE
      LET parsedRef == typeFromRef(param.ref)
          refType == parsedRef.e1
          shared == ObjGet(specParameters.v, parsedRef.e2)
      IN  IF ~parsedRef.def THEN acc
          ELSE IF refType = "other" THEN acc
          ELSE IF refType = "definition"
          THEN [acc EXCEPT
                  !.params = ObjSet(@, ParamKey(uncapitalize(parsedRef.e2), param.required),
                                    parsedRef.e2),
                  !.imports = @ \cup {parsedRef.e2}]
          ELSE IF ~specParameters.def THEN acc
          ELSE IF ~ObjHas(specParameters.v, parsedRef.e2)
          THEN [acc EXCEPT !.threw = TRUE]
          ELSE IF specTypeToTs(shared.type) = "" THEN acc
          ELSE [acc EXCEPT
                  !.params = ObjSet(@, ParamKey(uncapitalize(parsedRef.e2), shared.required),
                                    specTypeToTs(shared.type))]

RECURSIVE CollectParams(_, _, _)
CollectParams(acc, parameters, specParameters) ==
    IF parameters = <<>> THEN acc
    ELSE CollectParams(ParamStep(acc, Head(parameters), specParameters),
                       Tail(parameters), specParameters)

\* a builder that forgets the put method
contentTypeHeadersPostOnly(method, params) ==
    IF method = "post" /\ Len(params) > 0 THEN <<"Content-Type">> ELSE <<>>

contentTypeHeaders(method, params) ==
    IF (method = "post" \/ method = "put") /\ Len(params) > 0
    THEN <<"Content-Type">>
    ELSE <<>>

\* a mapper that takes every 2xx status for the success default
DefaultTypeAny2xx(responseStatus, defaultSuccessType, defaultErrorType) ==
    IF Len(responseStatus) = 3 /\ responseStatus[1] = "2"
    THEN defaultSuccessType ELSE defaultErrorType

DefaultType(responseStatus, defaultSuccessType, defaultErrorType) ==
    IF responseStatus = <<"2", "0", "0">> THEN defaultSuccessType ELSE defaultErrorType

\* The body of the map over Object.keys(operation.responses) (lines 210-223).
ResponseEntry(response, defaultSuccessType, defaultErrorType) ==
    LET parsedRef == IF response.ref # <<>> THEN typeFromRef(response.ref) ELSE NoRef
    IN  [e1 |-> response.status,
         e2 |-> IF parsedRef.def THEN parsedRef.e2
                ELSE DefaultType(response.status, defaultSuccessType, defaultErrorType),
         imported |-> IF parsedRef.def THEN {parsedRef.e2} ELSE {}]

ResponseOf(declared, status) ==
    declared[CHOOSE i \in DOMAIN declared : declared[i].status = status]

IsSuccess(r) == Len(r.e1) = 3 /\ r.e1[1] = "2"

FindSuccess(responses) ==
    IF \E i \in DOMAIN responses : IsSuccess(responses[i])
    THEN Some(responses[CHOOSE i \in DOMAIN responses :
                 /\ IsSuccess(responses[i])
                 /\ \A j \in 1..(i - 1) : ~IsSuccess(responses[j])])
    ELSE Undef

\* responses.reduce(..., "") of lines 237-243
RECURSIVE ComposeDecoders(_, _, _)
ComposeDecoders(acc, responses, successType) ==
    IF responses = <<>> THEN acc
    ELSE
      LET r == Head(responses)
          d == getDecoderForResponse(r.e1, IF r.e1 = successType.e1 THEN "type" ELSE r.e2)
      IN  ComposeDecoders(
            IF acc = <<>> THEN d
            ELSE <<Tok("composeResponseDecoders(", <<>>, "")>> \o acc
                   \o <<Tok(",", <<>>, "")>> \o d \o <<Tok(")", <<>>, "")>>,
            Tail(responses), successType)

NoDecoder == [def |-> FALSE, generic |-> <<>>, default |-> ""]

NoCode == [method |-> "", operationId |-> "", params |-> <<>>, headers |-> <<>>,
           never |-> FALSE, responses |-> <<>>, decoder |-> NoDecoder]

renderOperation(method, operationId, operation, specParameters, securityDefinitions, extraHeaders, extraParameters, defaultSuccessType, defaultErrorType, generateResponseDecoders) ==
    LET collected ==
          IF operation.parameters.def
          THEN CollectParams([params |-> <<>>, imports |-> {}, threw |-> FALSE],
                             operation.parameters.v, specParameters)
          ELSE [params |-> <<>>, imports |-> {}, threw |-> FALSE]
        params == collected.params
        authHeadersAndParams ==
          IF operation.security.def
          THEN getAuthHeaders(securityDefinitions, Some(FirstKeys(operation.security.v)))
          ELSE <<>>
        authParams ==
          ObjMerge(<<>>, [i \in DOMAIN authHeadersAndParams |->
                            [k |-> ParamKey(authHeadersAndParams[i].e1, TRUE), v |-> "string"]])
        allParams == ObjMerge(ObjMerge(extraParameters, authParams), params)
        authHeaders == [i \in DOMAIN authHeadersAndParams |-> authHeadersAndParams[i].e2]
        headers == contentTypeHeaders(method, params) \o authHeaders \o extraHeaders
        order == ObjectKeys([i \in DOMAIN operation.responses |-> operation.responses[i].status])
        entries == [i \in DOMAIN order |->
                      ResponseEntry(ResponseOf(operation.responses, order[i]),
                                    defaultSuccessType, defaultErrorType)]
        responses == [i \in DOMAIN entries |-> Tuple2(entries[i].e1, entries[i].e2)]
        successType == FindSuccess(responses)
        decoder ==
          IF generateResponseDecoders /\ successType.def
          THEN [def |-> TRUE,
                generic |-> ComposeDecoders(<<>>, responses, successType.v),
                default |-> IF successType.v.e2 = "undefined" THEN "t.undefined"
                            ELSE successType.v.e2]
          ELSE NoDecoder
    IN  IF collected.threw
        THEN [threw |-> TRUE, code |-> NoCode, imports |-> {}]
        ELSE [threw |-> FALSE,
              code |-> [method |-> method, operationId |-> operationId,
                        params |-> allParams, headers |-> headers,
                        never |-> Len(headers) = 0,
                        responses |-> responses, decoder |-> decoder],
              imports |-> collected.imports
                          \cup UNION {entries[i].imported : i \in DOMAIN entries}]

-----------------------------------------------------------------------------
(* generateApi: the document walker *)

NotSwagger2 == "The specification is not of type swagger 2"

TypeError == "TypeError: Cannot read property of undefined"

\* a version check that accepts every document
isOpenAPIV2Always(specs) == specs.swagger = specs.swagger

isOpenAPIV2(specs) == specs.swagger # Absent

\* lines 366-385: the path-level parameters, then the global auth parameters
RECURSIVE PathParameters(_, _)
PathParameters(extraParameters, parameters) ==
    IF parameters = <<>> THEN extraParameters
    ELSE LET param == Head(parameters)
         IN  PathParameters(
               IF param.type # ""
               THEN ObjSet(extraParameters, ParamKey(param.name, param.required),
                           specTypeToTs(param.type))
               ELSE extraParameters,
               Tail(parameters))

GlobalAuthHeaders(doc) ==
    IF doc.security.def
    THEN getAuthHeaders(doc.securityDefinitions, Some(FirstKeys(doc.security.v)))
    ELSE <<>>

ExtraParameters(doc, pathSpec) ==
    LET globalAuthHeaders == GlobalAuthHeaders(doc)
    IN  ObjMerge(
          IF pathSpec.parameters.def THEN PathParameters(<<>>, pathSpec.parameters.v) ELSE <<>>,
          [i \in DOMAIN globalAuthHeaders |->
             [k |-> ParamKey(globalAuthHeaders[i].e1, TRUE), v |-> "string"]])

\* The (path, key) entries in the order of the two nested maps of lines 364-429.
\* Object.keys(pathSpec) also yields the "parameters" key of a path item that
\* declares shared parameters; the method check rejects it wherever it stands.
RECURSIVE Entries(_, _)
Entries(paths, n) ==
    IF n > Len(paths) THEN <<>>
    ELSE (IF paths[n].parameters.def THEN <<[path |-> n, key |-> "parameters"]>> ELSE <<>>)
         \o [i \in DOMAIN paths[n].ops |-> [path |-> n, key |-> paths[n].ops[i].k]]
         \o Entries(paths, n + 1)

Skipped(e) ==
    [path |-> e.path, key |-> e.key, skipped |-> TRUE, code |-> NoCode, imports |-> {}]

\* The body of the inner map (lines 387-428) for one entry
OperationType(doc, config, e) ==
    LET pathSpec == doc.paths[e.path]
        method == toLowerCase(e.key)
    IN  IF method \notin Range(SUPPORTED_SPEC_METHODS) THEN [threw |-> FALSE, op |-> Skipped(e)]
        ELSE IF ~ObjHas(pathSpec.ops, method) THEN [threw |-> FALSE, op |-> Skipped(e)]
        ELSE
          LET operation == ObjGet(pathSpec.ops, method)
          IN  IF operation.operationId = Absent THEN [threw |-> FALSE, op |-> Skipped(e)]
              ELSE
                LET globalAuthHeaders == GlobalAuthHeaders(doc)
                    r == renderOperation(method, operation.operationId, operation,
                           doc.parameters, doc.securityDefinitions,
                           [i \in DOMAIN globalAuthHeaders |-> globalAuthHeaders[i].e2],
                           ExtraParameters(doc, pathSpec),
                           config.defaultSuccessType, config.defaultErrorType,
                           config.generateResponseDecoders)
                IN  [threw |-> r.threw,
                     op |-> [path |-> e.path, key |-> e.key, skipped |-> FALSE,
                             code |-> r.code, imports |-> r.imports]]

IsRendered(op) == ~op.skipped

NoFile == [written |-> FALSE, imports |-> {}, code |-> <<>>]

\* await SwaggerParser.bundle, then the version check (lines 309-313)
Bundle ==
    /\ pc = "bundle"
    /\ IF isOpenAPIV2(api)
       THEN pc' = "specs" /\ error' = error
       ELSE pc' = "failed" /\ error' = NotSwagger2
    /\ UNCHANGED <<api, cfg, tsSpecFile, modelFiles, operationsTypes, requestTypesFile,
                   call, ret>>

\* lines 314-331
WriteSpecs ==
    /\ pc = "specs"
    /\ tsSpecFile' = cfg.tsSpecFilePath
    /\ pc' = "definitions"
    /\ UNCHANGED <<api, cfg, error, modelFiles, operationsTypes, requestTypesFile,
                   call, ret>>

\* lines 333-337
NoDefinitions ==
    /\ pc = "definitions"
    /\ ~api.definitions.def
    /\ pc' = "done"
    /\ UNCHANGED <<api, cfg, error, tsSpecFile, modelFiles, operationsTypes,
                   requestTypesFile, call, ret>>

\* one iteration of the loop of lines 339-352
WriteModel ==
    /\ pc = "definitions"
    /\ api.definitions.def
    /\ Len(modelFiles) < Len(api.definitions.v)
    /\ modelFiles' = Append(modelFiles, api.definitions.v[Len(modelFiles) + 1])
    /\ UNCHANGED <<pc, api, cfg, error, tsSpecFile, operationsTypes, requestTypesFile,
                   call, ret>>

\* line 354
EndModels ==
    /\ pc = "definitions"
    /\ api.definitions.def
    /\ Len(modelFiles) = Len(api.definitions.v)
    /\ pc' = IF cfg.generateRequestTypes \/ cfg.generateResponseDecoders
             THEN "walk" ELSE "done"
    /\ UNCHANGED <<api, cfg, error, tsSpecFile, modelFiles, operationsTypes,
                   requestTypesFile, call, ret>>

\* one (path, key) entry of the maps of lines 364-429
WalkEntry ==
    /\ pc = "walk"
    /\ Len(operationsTypes) < Len(Entries(api.paths, 1))
    /\ LET r == OperationType(api, cfg, Entries(api.paths, 1)[Len(operationsTypes) + 1])
       IN  IF r.threw
           THEN pc' = "failed" /\ error' = TypeError
                /\ operationsTypes' = operationsTypes
           ELSE pc' = pc /\ error' = error
                /\ operationsTypes' = Append(operationsTypes, r.op)
    /\ UNCHANGED <<api, cfg, tsSpecFile, modelFiles, requestTypesFile, call, ret>>

\* lines 431-470
WriteRequestTypes ==
    /\ pc = "walk"
    /\ Len(operationsTypes) = Len(Entries(api.paths, 1))
    /\ LET rendered == SelectSeq(operationsTypes, IsRendered)
       IN  requestTypesFile' =
             [written |-> TRUE,
              imports |-> UNION {rendered[i].imports : i \in DOMAIN rendered},
              code |-> [i \in DOMAIN rendered |-> rendered[i].code]]
    /\ pc' = "done"
    /\ UNCHANGED <<api, cfg, error, tsSpecFile, modelFiles, operationsTypes, call, ret>>

Next ==
    \/ Bundle
    \/ WriteSpecs
    \/ NoDefinitions
    \/ WriteModel
    \/ EndModels
    \/ WalkEntry
    \/ WriteRequestTypes

\* a direct call of getAuthHeaders
NoCall == [securityDefinitions |-> Undef, securityKeys |-> Undef]

NoRet == [done |-> FALSE, v |-> <<>>]

CallGetAuthHeaders ==
    /\ pc = "call"
    /\ ~ret.done
    /\ ret' = [done |-> TRUE, v |-> getAuthHeaders(call.securityDefinitions, call.securityKeys)]
    /\ UNCHANGED <<pc, api, cfg, error, tsSpecFile, modelFiles, operationsTypes,
                   requestTypesFile, call>>

NextAuth == CallGetAuthHeaders

-----------------------------------------------------------------------------
(* The explored inputs: bundled documents and generateApi arguments *)

S200 == <<"2", "0", "0">>

S201 == <<"2", "0", "1">>

S404 == <<"4", "0", "4">>

S2XX == <<"2", "X", "X">>

SDefault == <<"d", "e", "f", "a", "u", "l", "t">>

Statuses == {S200, S201, S404, S2XX, SDefault}

RefProfile == <<"#", "definitions", "Profile">>

RefLimit == <<"#", "parameters", "Limit">>

RefMissing == <<"#", "parameters", "Missing">>

RefGhost == <<"#", "definitions", "Ghost">>

RefDeep == <<"#", "definitions", "Profile", "bar">>

RefOther == <<"#", "responses", "Profile">>

Param(name, type, required, in, ref) ==
    [name |-> name, type |-> type, required |-> required, in |-> in, ref |-> ref]

InlineParams ==
    {Param("id", "integer", req, "query", <<>>) : req \in BOOLEAN}
    \cup {Param("id", "integer", TRUE, "path", <<>>)}
    \cup {Param("apiKey", "file", TRUE, "query", <<>>)}

RefParams ==
    {Param("", "", req, "body", RefProfile) : req \in BOOLEAN}
    \cup {Param("", "", FALSE, "", ref) : ref \in {RefLimit, RefMissing, RefGhost, RefDeep, RefOther}}
    \cup {Param("body", "", TRUE, "body", <<>>)}

ParamDecls == InlineParams \cup RefParams

SharedLimit == <<[k |-> "Limit", v |-> [type |-> "integer", required |-> TRUE, in |-> "query"]]>>

Scheme(in, name) == [in |-> in, name |-> name]

Schemes == {Scheme("header", "X-Api-Key"), Scheme("header", "Authorization"),
            Scheme("query", "api_key")}

SchemeMaps ==
    {<<>>}
    \cup {<<[k |-> "apiKey", v |-> a]>> : a \in Schemes}
    \cup {<<[k |-> "token", v |-> b]>> : b \in Schemes}
    \cup {<<[k |-> "apiKey", v |-> a], [k |-> "token", v |-> b]>> : a, b \in Schemes}

OptSchemeMaps == {Undef} \cup {Some(m) : m \in SchemeMaps}

BaseSchemes == Some(<<[k |-> "apiKey", v |-> Scheme("header", "X-Api-Key")],
                      [k |-> "token", v |-> Scheme("header", "Authorization")]>>)

Requirements == {<<>>, <<"apiKey">>, <<"token">>, <<"ghost">>, <<"apiKey", "token">>}

Response(status, ref) == [status |-> status, ref |-> ref]

ResponseRefs == {<<>>, RefProfile, RefLimit, RefDeep}

ResponseDecls ==
    {rs \in SeqsUpTo({Response(st, ref) : st \in Statuses, ref \in ResponseRefs}, MaxResponses) :
        \A i, j \in DOMAIN rs : i # j => rs[i].status # rs[j].status}

Operation(operationId, parameters, security, responses) ==
    [operationId |-> operationId, parameters |-> parameters, security |-> security,
     responses |-> responses]

BaseOperation ==
    Operation("getProfile", Undef, Undef, <<Response(S200, RefProfile), Response(S404, <<>>)>>)

PathSpec(parameters, ops) == [parameters |-> parameters, ops |-> ops]

BasePath == PathSpec(Undef, <<[k |-> "get", v |-> BaseOperation]>>)

Document(swagger, definitions, parameters, securityDefinitions, security, paths) ==
    [swagger |-> swagger, definitions |-> definitions, parameters |-> parameters,
     securityDefinitions |-> securityDefinitions, security |-> security, paths |-> paths]

BaseDocument ==
    Document("2.0", Some(<<"Profile">>), Some(SharedLimit), BaseSchemes, Undef, <<BasePath>>)

Config(tsSpecFilePath, generateRequestTypes, generateResponseDecoders, defaultSuccessType, defaultErrorType) ==
    [tsSpecFilePath |-> tsSpecFilePath, generateRequestTypes |-> generateRequestTypes,
     generateResponseDecoders |-> generateResponseDecoders,
     defaultSuccessType |-> defaultSuccessType, defaultErrorType |-> defaultErrorType]

BaseConfig == Config(TRUE, TRUE, TRUE, "undefined", "Error")

Input(doc, config) == [api |-> doc, cfg |-> config]

\* documents that take each branch of generateApi once
ControlInputs ==
    {Input(BaseDocument, BaseConfig),
     Input([BaseDocument EXCEPT !.swagger = Absent], BaseConfig),
     Input([BaseDocument EXCEPT !.definitions = Undef], BaseConfig),
     Input(BaseDocument, Config(FALSE, FALSE, FALSE, "undefined", "Error"))}

\* the walk: which entries a path item has, and which artifacts are asked for
EntryKeys == {"get", "post", "head"}

WalkOps ==
    {ops \in SeqsUpTo({[k |-> key, v |-> [BaseOperation EXCEPT !.operationId = id]] :
                          key \in EntryKeys, id \in {Absent, "getProfile"}}, MaxEntries) :
        \A i, j \in DOMAIN ops : i # j => ops[i].k # ops[j].k}

WalkPaths ==
    UNION {{<<PathSpec(Undef, ops)>>, <<PathSpec(Undef, ops), BasePath>>,
            <<BasePath, PathSpec(Undef, ops)>>} : ops \in WalkOps}

WalkInputs ==
    {Input(Document(swagger, definitions, Undef, Undef, Undef, paths),
           Config(ts, req, dec, "undefined", "Error")) :
        swagger \in {Absent, "2.0"},
        definitions \in {Undef, Some(<<>>), Some(<<"Profile">>)},
        paths \in WalkPaths,
        ts \in BOOLEAN, req \in BOOLEAN, dec \in BOOLEAN}

\* the parameter collector: path-level, auth-derived and operation parameters
Context(pathParams, security, global) ==
    [pathParams |-> pathParams, security |-> security, global |-> global]

Contexts ==
    {Context(Undef, Undef, Undef),
     Context(Some(<<Param("id", "string", FALSE, "path", <<>>)>>), Undef, Undef),
     Context(Some(<<Param("id", "string", TRUE, "path", <<>>)>>), Undef, Undef),
     Context(Undef, Some(<<<<"apiKey">>>>), Undef),
     Context(Undef, Some(<<<<"apiKey">>>>), Some(<<<<"token">>>>))}

ParamInputs ==
    {Input([BaseDocument EXCEPT
              !.parameters = shared,
              !.security = ctx.global,
              !.paths = <<PathSpec(ctx.pathParams,
                                   <<[k |-> method,
                                      v |-> Operation("op", parameters, ctx.security,
                                                      BaseOperation.responses)]>>)>>],
           BaseConfig) :
        shared \in {Undef, Some(SharedLimit)},
        ctx \in Contexts,
        method \in {"get", "post", "put"},
        parameters \in {Undef} \cup {Some(ps) : ps \in SeqsUpTo(ParamDecls, MaxParams)}}

\* the security resolver as renderOperation and generateApi use it
SecurityInputs ==
    {Input([BaseDocument EXCEPT
              !.securityDefinitions = schemes,
              !.security = global,
              !.paths = <<PathSpec(Undef,
                                   <<[k |-> "get",
                                      v |-> Operation("op", parameters, security,
                                                      BaseOperation.responses)]>>)>>],
           BaseConfig) :
        schemes \in OptSchemeMaps,
        global \in {Undef, Some(<<<<"token">>>>)},
        parameters \in {Undef, Some(<<Param("apiKey", "integer", TRUE, "query", <<>>)>>)},
        security \in {Undef} \cup {Some(rs) : rs \in SeqsUpTo(Requirements, MaxSecurity)}}

\* the response mapper and the decoder composer
ResponseInputs ==
    {Input([BaseDocument EXCEPT
              !.paths = <<PathSpec(Undef,
                                   <<[k |-> "get",
                                      v |-> Operation("op", Undef, Undef, responses)]>>)>>],
           Config(TRUE, TRUE, dec, types[1], types[2])) :
        responses \in ResponseDecls,
        dec \in BOOLEAN,
        types \in {<<"undefined", "Error">>, <<"Profile", "Problem">>}}

AuthCalls ==
    {[securityDefinitions |-> schemes, securityKeys |-> keys] :
        schemes \in OptSchemeMaps,
        keys \in {Undef} \cup {Some(ks) : ks \in SeqsUpTo({"apiKey", "token", "ghost"},
                                                          MaxSecurity)}}

-----------------------------------------------------------------------------
(* Specifications *)

Start(inputs) ==
    /\ \E in \in inputs : api = in.api /\ cfg = in.cfg
    /\ pc = "bundle"
    /\ error = ""
    /\ tsSpecFile = FALSE
    /\ modelFiles = <<>>
    /\ operationsTypes = <<>>
    /\ requestTypesFile = NoFile
    /\ call = NoCall
    /\ ret = NoRet

Init == Start(ControlInputs \cup WalkInputs)

InitParams == Start(ControlInputs \cup ParamInputs)

InitSecurity == Start(ControlInputs \cup SecurityInputs)

InitResponses == Start(ControlInputs \cup ResponseInputs)

InitAuth ==
    /\ call \in AuthCalls
    /\ ret = NoRet
    /\ pc = "call"
    /\ api = BaseDocument
    /\ cfg = BaseConfig
    /\ error = ""
    /\ tsSpecFile = FALSE
    /\ modelFiles = <<>>
    /\ operationsTypes = <<>>
    /\ requestTypesFile = NoFile

Spec == Init /\ [][Next]_vars

SpecParams == InitParams /\ [][Next]_vars

SpecSecurity == InitSecurity /\ [][Next]_vars

SpecResponses == InitResponses /\ [][Next]_vars

SpecAuth == InitAuth /\ [][NextAuth]_vars

-----------------------------------------------------------------------------
(* Properties *)

Rendered == {i \in DOMAIN operationsTypes : ~operationsTypes[i].skipped}

PathOf(i) == api.paths[operationsTypes[i].path]

SourceOf(i) == ObjGet(PathOf(i).ops, operationsTypes[i].key)

CodeOf(i) == operationsTypes[i].code

OwnParameters(operation) ==
    IF operation.parameters.def THEN operation.parameters.v ELSE <<>>

IsInline(p) == p.name # "" /\ p.type # ""

\* The key an operation-specific parameter declaration contributes to the
\* merged set: none when the declaration is skipped.
OwnKeys(p, shared) ==
    IF IsInline(p) THEN {ParamKey(p.name, p.required)}
    ELSE IF Len(p.ref) # 3 THEN {}
    ELSE IF p.ref[2] = "definitions" THEN {ParamKey(uncapitalize(p.ref[3]), p.required)}
    ELSE IF /\ p.ref[2] = "parameters"
            /\ shared.def
            /\ ObjHas(shared.v, p.ref[3])
            /\ ObjGet(shared.v, p.ref[3]).type # ""
    THEN {ParamKey(uncapitalize(p.ref[3]), ObjGet(shared.v, p.ref[3]).required)}
    ELSE {}

RequirementNames(operation) ==
    IF operation.security.def
    THEN {r[1] : r \in {q \in Range(operation.security.v) : q # <<>>}}
    ELSE {}

IsHeaderSchemeName(k) ==
    /\ api.securityDefinitions.def
    /\ ObjHas(api.securityDefinitions.v, k)
    /\ ObjGet(api.securityDefinitions.v, k).in = "header"

HeaderFieldOf(k) == ObjGet(api.securityDefinitions.v, k).name

\* C1 (as claimed): the merged parameter set of every operation (here: every
\* operation that declares no name twice among its own parameters) holds at
\* most one entry per parameter name, an operation-specific declaration wins
\* over the lower layers whatever the required flags, and an
\* operation-specific parameter declared required is required in the merged
\* set.
C1_OneEntryPerName ==
    \A i \in Rendered :
      LET ps == CodeOf(i).params
          decls == OwnParameters(SourceOf(i))
          own == {p \in Range(decls) : IsInline(p)}
          once == \A m, n \in DOMAIN decls : m # n =>
                    \A x \in OwnKeys(decls[m], api.parameters) :
                      \A y \in OwnKeys(decls[n], api.parameters) : x.name # y.name
      IN  /\ once => \A a, b \in DOMAIN ps : a # b => ps[a].k.name # ps[b].k.name
          /\ \A p \in own : \A a \in DOMAIN ps :
               ps[a].k.name = p.name =>
                 ps[a].v \in {specTypeToTs(q.type) : q \in {r \in own : r.name = p.name}}
          /\ \A p \in own :
               p.required => \E a \in DOMAIN ps : ps[a].k = ParamKey(p.name, TRUE)

\* C2 (as claimed): for every security requirement of an operation that
\* resolves to a header-located scheme, the merged set holds a required string
\* parameter keyed by the scheme's header field name, and the header set holds
\* that header field name.
C2_AuthParameterKeyedByHeaderField ==
    \A i \in Rendered : \A k \in RequirementNames(SourceOf(i)) :
      IsHeaderSchemeName(k) =>
        /\ \E a \in DOMAIN CodeOf(i).params :
             /\ CodeOf(i).params[a].k = ParamKey(HeaderFieldOf(k), TRUE)
             /\ CodeOf(i).params[a].v = "string"
        /\ HeaderFieldOf(k) \in Range(CodeOf(i).headers)

\* C2 (amended): for every security requirement of an operation whose first
\* scheme name resolves to a header-located scheme, the merged set holds a
\* required parameter keyed by the scheme's name, typed string unless a
\* required operation-specific parameter of that name overwrites it, and the
\* header set holds the scheme's header field name.
C2_AuthParameterKeyedBySchemeName ==
    \A i \in Rendered : \A k \in RequirementNames(SourceOf(i)) :
      IsHeaderSchemeName(k) =>
        /\ \E a \in DOMAIN CodeOf(i).params :
             /\ CodeOf(i).params[a].k = ParamKey(k, TRUE)
             /\ \/ CodeOf(i).params[a].v = "string"
                \/ \E p \in Range(OwnParameters(SourceOf(i))) :
                     ParamKey(k, TRUE) \in OwnKeys(p, api.parameters)
        /\ HeaderFieldOf(k) \in Range(CodeOf(i).headers)

C2_Witness ==
    /\ pc = "done"
    /\ \E i \in Rendered : \E k \in RequirementNames(SourceOf(i)) :
         /\ IsHeaderSchemeName(k)
         /\ HeaderFieldOf(k) = "X-Api-Key"
         /\ \E a \in DOMAIN CodeOf(i).params :
              CodeOf(i).params[a].k = ParamKey(k, TRUE) /\ CodeOf(i).params[a].v = "string"

Unresolvable(p, doc) ==
    /\ ~IsInline(p)
    /\ p.ref # <<>>
    /\ \/ Len(p.ref) # 3
       \/ p.ref[2] \notin {"definitions", "parameters"}
       \/ /\ p.ref[2] = "parameters"
          /\ ~(doc.parameters.def /\ ObjHas(doc.parameters.v, p.ref[3]))
       \/ /\ p.ref[2] = "definitions"
          /\ ~(doc.definitions.def /\ p.ref[3] \in Range(doc.definitions.v))

IsResolvable(p) == ~Unresolvable(p, api)

WithoutUnresolvable(operation) ==
    IF operation.parameters.def
    THEN [operation EXCEPT !.parameters = Some(SelectSeq(operation.parameters.v, IsResolvable))]
    ELSE operation

\* C5 (as claimed): an operation-specific parameter whose reference has not
\* three segments, classifies as Other, or names a missing shared parameter or
\* definition is skipped: the run does not throw, and the operation is
\* rendered exactly as if the parameter had not been declared.
C5_UnresolvableParameterSkipped ==
    /\ error # TypeError
    /\ \A i \in Rendered :
         LET pathSpec == PathOf(i)
             globalAuthHeaders == GlobalAuthHeaders(api)
             r == renderOperation(CodeOf(i).method, CodeOf(i).operationId,
                    WithoutUnresolvable(SourceOf(i)), api.parameters, api.securityDefinitions,
                    [n \in DOMAIN globalAuthHeaders |-> globalAuthHeaders[n].e2],
                    ExtraParameters(api, pathSpec), cfg.defaultSuccessType,
                    cfg.defaultErrorType, cfg.generateResponseDecoders)
         IN  ~r.threw /\ r.code = CodeOf(i) /\ r.imports = operationsTypes[i].imports

\* C9 (as claimed): the header set holds "Content-Type" exactly when the
\* method is post or put and the operation has a body or query parameter; it
\* then comes first, before the auth headers in requirement order and the
\* extra headers; an empty header set is rendered as never.
C9_ContentTypeForBodyOrQuery ==
    \A i \in Rendered :
      LET globalAuthHeaders == GlobalAuthHeaders(api)
          auth == IF SourceOf(i).security.def
                  THEN getAuthHeaders(api.securityDefinitions,
                                      Some(FirstKeys(SourceOf(i).security.v)))
                  ELSE <<>>
          rest == [n \in DOMAIN auth |-> auth[n].e2]
                  \o [n \in DOMAIN globalAuthHeaders |-> globalAuthHeaders[n].e2]
          wanted == /\ CodeOf(i).method \in {"post", "put"}
                    /\ \E p \in Range(OwnParameters(SourceOf(i))) : p.in \in {"body", "query"}
      IN  /\ CodeOf(i).headers = (IF wanted THEN <<"Content-Type">> ELSE <<>>) \o rest
          /\ CodeOf(i).never = (CodeOf(i).headers = <<>>)

\* C9 (amended): the header set holds "Content-Type" exactly when the method
\* is post or put and at least one operation-specific parameter, whatever its
\* location, was resolved into the merged set; it then comes first, before the
\* auth headers in requirement order and the extra headers; an empty header
\* set is rendered as never.
C9_ContentTypeForResolvedParameter ==
    \A i \in Rendered :
      LET globalAuthHeaders == GlobalAuthHeaders(api)
          auth == IF SourceOf(i).security.def
                  THEN getAuthHeaders(api.securityDefinitions,
                                      Some(FirstKeys(SourceOf(i).security.v)))
                  ELSE <<>>
          rest == [n \in DOMAIN auth |-> auth[n].e2]
                  \o [n \in DOMAIN globalAuthHeaders |-> globalAuthHeaders[n].e2]
          wanted == /\ CodeOf(i).method \in {"post", "put"}
                    /\ \E p \in Range(OwnParameters(SourceOf(i))) :
                         OwnKeys(p, api.parameters) # {}
      IN  /\ CodeOf(i).headers = (IF wanted THEN <<"Content-Type">> ELSE <<>>) \o rest
          /\ CodeOf(i).never = (CodeOf(i).headers = <<>>)

C9_Witness ==
    /\ pc = "done"
    /\ \E i \in Rendered :
         /\ CodeOf(i).method = "put"
         /\ CodeOf(i).headers = <<"Content-Type", "X-Api-Key", "Authorization">>
         /\ \A p \in Range(OwnParameters(SourceOf(i))) : p.in = "path"
         /\ OwnParameters(SourceOf(i)) # <<>>


Declared(i) == SourceOf(i).responses

TypeOf(i, status) ==
    CodeOf(i).responses[CHOOSE n \in DOMAIN CodeOf(i).responses :
                          CodeOf(i).responses[n].e1 = status].e2

Is2xx(status) == Len(status) = 3 /\ status[1] = "2"

\* C3 (as claimed): a declared response without reference resolves to the
\* success default when its status is any three-character code starting with
\* "2", and to the error default otherwise.
C3_Any2xxDefaultsToSuccessType ==
    \A i \in Rendered : \A n \in DOMAIN Declared(i) :
      Declared(i)[n].ref = <<>> =>
        TypeOf(i, Declared(i)[n].status) =
          IF Is2xx(Declared(i)[n].status) THEN cfg.defaultSuccessType
          ELSE cfg.defaultErrorType

\* C3 (amended): a declared response without reference resolves to the success
\* default when its status is exactly "200", and to the error default for
\* every other status, the other 2xx codes included.
C3_Only200DefaultsToSuccessType ==
    \A i \in Rendered : \A n \in DOMAIN Declared(i) :
      Declared(i)[n].ref = <<>> =>
        /\ \E m \in DOMAIN CodeOf(i).responses :
             CodeOf(i).responses[m].e1 = Declared(i)[n].status
        /\ TypeOf(i, Declared(i)[n].status) =
             IF Declared(i)[n].status = <<"2", "0", "0">> THEN cfg.defaultSuccessType
             ELSE cfg.defaultErrorType

C3_Witness ==
    /\ pc = "done"
    /\ cfg.defaultSuccessType = "Profile"
    /\ \E i \in Rendered :
         /\ Declared(i) = <<Response(S201, <<>>), Response(S200, <<>>)>>
         /\ TypeOf(i, S201) = "Problem"
         /\ TypeOf(i, S200) = "Profile"

IsLeaf(tok) == tok.status # <<>>

Leaves(i) == SelectSeq(CodeOf(i).decoder.generic, IsLeaf)

Position(i, status) == CHOOSE n \in DOMAIN Declared(i) : Declared(i)[n].status = status

\* The tokens are the left-to-right fold of the leaves with the binary
\* combinator: compose(compose(d1, d2), d3) ...
IsLeftFold(tokens, leaves) ==
    LET n == Len(leaves)
    IN  /\ n >= 1
        /\ Len(tokens) = 4 * n - 3
        /\ \A m \in 1..(n - 1) : tokens[m].t = "composeResponseDecoders("
        /\ tokens[n] = leaves[1]
        /\ \A m \in 2..n :
             /\ tokens[n + 3 * (m - 2) + 1].t = ","
             /\ tokens[n + 3 * (m - 2) + 2] = leaves[m]
             /\ tokens[n + 3 * (m - 2) + 3].t = ")"

\* What C7 says apart from the order of the fold: a decoder exists exactly when
\* decoders are requested and a 2xx response is declared; it is the left fold
\* of one decoder per declared response; the first 2xx leaf of the fold is the
\* only one bound to the caller-supplied generic type, every other leaf is
\* fixed to its resolved type.
DecoderShape(i) ==
    LET d == CodeOf(i).decoder
        leaves == Leaves(i)
        first2xx == CHOOSE n \in DOMAIN leaves :
                      /\ Is2xx(leaves[n].status)
                      /\ \A m \in 1..(n - 1) : ~Is2xx(leaves[m].status)
    IN  /\ d.def <=> (cfg.generateResponseDecoders
                      /\ \E n \in DOMAIN Declared(i) : Is2xx(Declared(i)[n].status))
        /\ ~d.def => d.generic = <<>>
        /\ d.def =>
             /\ Len(leaves) = Len(Declared(i))
             /\ {leaves[n].status : n \in DOMAIN leaves}
                  = {Declared(i)[n].status : n \in DOMAIN Declared(i)}
             /\ IsLeftFold(d.generic, leaves)
             /\ \A n \in DOMAIN leaves :
                  leaves[n] = getDecoderForResponse(
                                leaves[n].status,
                                IF n = first2xx THEN "type"
                                ELSE TypeOf(i, leaves[n].status))[1]

\* C7 (as claimed): the composed decoder folds the per-status decoders in the
\* order the responses were declared in the source document, whatever that
\* order is.
C7_FoldInDeclarationOrder ==
    \A i \in Rendered :
      /\ DecoderShape(i)
      /\ CodeOf(i).decoder.def =>
           \A n \in DOMAIN Leaves(i) : Leaves(i)[n].status = Declared(i)[n].status

\* C7 (amended): the composed decoder folds the per-status decoders in the
\* key order of the responses object: the statuses that are canonical decimal
\* integers first, in ascending numeric order, then the other statuses (such
\* as "default") in the order they were declared; the SuccessResponse is the
\* first 2xx entry in that order.
C7_FoldInKeyOrder ==
    \A i \in Rendered :
      /\ DecoderShape(i)
      /\ CodeOf(i).decoder.def =>
           \A m, n \in DOMAIN Leaves(i) :
             m < n =>
               LET a == Leaves(i)[m].status
                   b == Leaves(i)[n].status
               IN  /\ IsIntegerKey(b) => IsIntegerKey(a) /\ ToNum(a) < ToNum(b)
                   /\ ~IsIntegerKey(a) => Position(i, a) < Position(i, b)

C7_Witness ==
    /\ pc = "done"
    /\ \E i \in Rendered :
         /\ Declared(i) = <<Response(S404, <<>>), Response(S201, RefProfile)>>
         /\ CodeOf(i).decoder.def
         /\ Leaves(i)[1].status = S201
         /\ Leaves(i)[1].type = "type"

DefinitionRefs(i) ==
    {p.ref[3] : p \in {q \in Range(OwnParameters(SourceOf(i))) :
                         ~IsInline(q) /\ typeFromRef(q.ref).e1 = "definition"}}
    \cup {r.ref[3] : r \in {q \in Range(Declared(i)) : typeFromRef(q.ref).e1 = "definition"}}

\* C8 (as claimed): after the walk the import set is exactly the set of model
\* names referenced with category Definition by a parameter or a response of
\* a rendered operation; a response whose reference has another category
\* takes the default type of its status.
C8_ImportsAreDefinitionReferences ==
    requestTypesFile.written =>
      /\ requestTypesFile.imports = UNION {DefinitionRefs(i) : i \in Rendered}
      /\ \A i \in Rendered : \A n \in DOMAIN Declared(i) :
           typeFromRef(Declared(i)[n].ref).e1 # "definition" =>
             TypeOf(i, Declared(i)[n].status) \in {cfg.defaultSuccessType, cfg.defaultErrorType}


EntryOperation(e) == ObjGet(api.paths[e.path].ops, e.key)

IsEligible(e) ==
    /\ e.key \in {"get", "post", "put", "delete"}
    /\ EntryOperation(e).operationId # Absent

\* C4 (as claimed): for every document that passes the version check, with or
\* without definitions, when request types or response decoders are requested
\* the walk ends with exactly one descriptor per (path, method) entry whose
\* method is supported and whose operation has an id, in walk order, and none
\* for the other entries.
C4_OneDescriptorPerSupportedEntry ==
    (/\ pc = "done"
     /\ api.swagger # Absent
     /\ (cfg.generateRequestTypes \/ cfg.generateResponseDecoders)) =>
      LET eligible == SelectSeq(Entries(api.paths, 1), IsEligible)
          rendered == SelectSeq(operationsTypes, IsRendered)
      IN  /\ Len(rendered) = Len(eligible)
          /\ \A n \in DOMAIN eligible :
               /\ rendered[n].path = eligible[n].path
               /\ rendered[n].key = eligible[n].key
               /\ rendered[n].code.method = eligible[n].key
               /\ rendered[n].code.operationId = EntryOperation(eligible[n]).operationId

\* C6: a document that fails the version check makes generateApi fail before
\* anything else happens: no snapshot, no model file and no request-types
\* artifact is written and no operation is rendered; a document that passes
\* the check never fails with the version error.
C6_VersionMismatchAbortsFirst ==
    /\ api.swagger = Absent =>
         /\ pc \in {"bundle", "failed"}
         /\ pc = "failed" => error = NotSwagger2
         /\ ~tsSpecFile
         /\ modelFiles = <<>>
         /\ operationsTypes = <<>>
         /\ requestTypesFile = NoFile
    /\ api.swagger # Absent => error # NotSwagger2

C6_Witness ==
    /\ api.swagger = Absent
    /\ cfg.tsSpecFilePath
    /\ api.definitions.def /\ api.definitions.v # <<>>
    /\ \E n \in DOMAIN Entries(api.paths, 1) : IsEligible(Entries(api.paths, 1)[n])
    /\ pc = "failed"
    /\ error = NotSwagger2

HeaderIndexes(defs, names) ==
    {n \in DOMAIN names :
       /\ ObjHas(defs, names[n])
       /\ ObjGet(defs, names[n]).in = "header"}

Nth(S, n) == CHOOSE x \in S : Cardinality({y \in S : y < x}) = n - 1

\* One AuthHeader per name that resolves to a header-located scheme, in the
\* order of the names.
HeadersOf(defs, names) ==
    [n \in 1..Cardinality(HeaderIndexes(defs, names)) |->
       LET k == names[Nth(HeaderIndexes(defs, names), n)]
       IN  [e1 |-> k, e2 |-> ObjGet(defs, k).name]]

\* C10 (as claimed): the resolver returns one AuthHeader per requirement name
\* that resolves to a header-located scheme, in requirement order, dropping
\* the others; given no requirement names (an empty or an undefined list)
\* while schemes are defined, it returns the AuthHeaders of all header-located
\* schemes.
C10_EmptyListFallsBackToAllSchemes ==
    (ret.done /\ call.securityDefinitions.def) =>
      LET defs == call.securityDefinitions.v
      IN  ret.v = IF call.securityKeys.def /\ call.securityKeys.v # <<>>
                  THEN HeadersOf(defs, call.securityKeys.v)
                  ELSE HeadersOf(defs, ObjKeys(defs))

\* C10 (amended): the resolver returns one AuthHeader per requirement name
\* that resolves to a header-located scheme, in requirement order, dropping
\* the others; given an undefined list while schemes are defined, it returns
\* the AuthHeaders of all header-located schemes in definition order; given an
\* empty list, or no scheme definitions, it returns no AuthHeader.
C10_OnlyUndefinedListFallsBack ==
    ret.done =>
      ret.v = IF ~call.securityDefinitions.def THEN <<>>
              ELSE IF call.securityKeys.def
              THEN HeadersOf(call.securityDefinitions.v, call.securityKeys.v)
              ELSE HeadersOf(call.securityDefinitions.v, ObjKeys(call.securityDefinitions.v))

C10_Witness ==
    /\ ret.done
    /\ ~call.securityKeys.def
    /\ call.securityDefinitions.def
    /\ Len(call.securityDefinitions.v) = 2
    /\ Len(ret.v) = 1

====
